---- MODULE Spec2Model ----
\* A model of the storage engine's insert path (storage/storage_engine.rs) and of
\* the ObjectId conversions (document/object_id.rs).
\*
\* The buffer pool, the page layout and the document encoder are crate modules the
\* engine calls; they are modelled by their documented contract and are kept apart
\* from the definitions translated from the engine's own code.
EXTENDS Integers, Sequences, FiniteSets, TLC

\* ------------------------------------------------------------------ bounds
MaxPages == 2          \* pages 0 .. MaxPages-1 of the file (and page 2^32) are followed
PageCapacity == 6      \* free space of an empty page (page size minus header)
MaxDocLen == 5         \* longest encoded document offered to insert
MaxPinFailures == 1    \* pin_page failures injected per insert call
MaxFill == 5           \* ObjectId inputs: index of the last fill byte pattern

\* A page id of the file and of the pool is wider than 32 bits; it is held as
\* over * 2^32 + low.
PageId(n) == [over |-> 0, low |-> n]

\* page 2^32 of a file of 2^32 + 1 pages
FarPage == [over |-> 1, low |-> 0]

\* the pages the model follows: the first pages of the file, and page 2^32
PageIds == { PageId(n) : n \in 0 .. (MaxPages - 1) } \cup {FarPage}

\* page counts of the file: 0 .. MaxPages, or 2^32 + 1
PageCounts == { PageId(n) : n \in 0 .. MaxPages } \cup {[over |-> 1, low |-> 1]}

\* p < count
Below(p, count) == p.over < count.over \/ (p.over = count.over /\ p.low < count.low)

\* count + 1
NextCount(count) == [over |-> count.over, low |-> count.low + 1]

\* buffer_pool_size given to StorageEngine::new: a pool of one frame, and a pool
\* that holds two pages at once
PoolSizes == {1, 2}
DocLens == 1 .. MaxDocLen

\* bytes one slot-directory entry takes (slot_entry_size)
SlotEntrySize == 2

VARIABLES
    buffer_pool_size, \* BufferPool: capacity given to StorageEngine::new
    page_count,     \* DatabaseFile: number of pages of the file
    frames,         \* BufferPool: resident page id -> frame
    pc,             \* insert_document: "idle", "scan", "pinned", "returned"
    document,       \* insert_document: the argument of the current/last call
    document_size,  \* insert_document: local document_size
    page_ids,       \* insert_document: local page_ids (snapshot)
    idx,            \* insert_document: 1-based position of the for loop
    result,         \* value returned by the last insert_document call
    log,            \* buffer pool / page layout / file calls of the current/last call
    start_frames,   \* frames when the current/last call began
    start_pages,    \* page_count when the current/last call began
    pin_failures,   \* failed pin_page calls of the current/last call
    oid_input,      \* ObjectId: the 12 bytes given to from_bytes
    oid,            \* ObjectId: the value built from them
    oid_hex,        \* ObjectId: the string to_hex returned
    oid_parsed,     \* ObjectId: what from_hex returned for that string
    oid_display,    \* ObjectId: the string format!("{}", obj) returned
    oid_clock,      \* ObjectId: the seconds SystemTime::now() gave ObjectId::new
    oid_ts,         \* ObjectId: the DateTime timestamp() returned
    oid_pc          \* ObjectId: "input", "object", "hex", "parsed", "shown",
                    \*           "made", "stamped"

engine_vars == <<buffer_pool_size, page_count, frames, pc, document, document_size, page_ids,
                 idx, result, log, start_frames, start_pages, pin_failures>>

oid_vars == <<oid_input, oid, oid_hex, oid_parsed, oid_display, oid_clock, oid_ts, oid_pc>>

vars == <<engine_vars, oid_vars>>

\* ------------------------------------------------------- pages and documents
\* A document is abstracted to what the engine reads of it: whether it encodes and
\* the length of its encoding.
Documents == [len : DocLens, encodable : BOOLEAN]
NoDocument == [len |-> 0, encodable |-> TRUE]

RECURSIVE SumLen(_)
SumLen(slots) ==
    IF slots = << >> THEN 0 ELSE Head(slots) + SlotEntrySize + SumLen(Tail(slots))

\* Page::get_free_space: free_space_start - end_of_slot_directory
get_free_space(slots) == PageCapacity - SumLen(slots)

\* Contents of a page read from the database file: empty, or one short document.
StoredPages == { << >>, <<1>> }

\* document::bson::serialize_document
serialize_document(d) ==
    IF d.encodable THEN [ok |-> TRUE, len |-> d.len] ELSE [ok |-> FALSE, len |-> 0]

\* document::bson::deserialize_document
deserialize_document(len) == [len |-> len, encodable |-> TRUE]

\* PageLayout::insert_document: PageFull when the bytes and their slot entry do not
\* fit; otherwise the new slot is appended and its index returned.
PageLayout_insert_document(slots, len) ==
    IF len + SlotEntrySize > get_free_space(slots)
    THEN [ok |-> FALSE, slots |-> slots, slot_id |-> 0]
    ELSE [ok |-> TRUE, slots |-> Append(slots, len), slot_id |-> Len(slots)]

\* ------------------------------------------------------------- buffer pool
\* The pool operations act on st = [frames, log]; log records every call.
Event(ev, page, flag) == [ev |-> ev, page |-> page, flag |-> flag]

\* BufferPool::get_all_page_ids: the resident ids, in an order the pool chooses.
Orders(S) ==
    { s \in [1 .. Cardinality(S) -> S] : \A i, j \in DOMAIN s : i # j => s[i] # s[j] }

\* What pin_page of page p has to do before it can hand the page out: nothing
\* for a resident page; otherwise read the page from the file, into a free
\* frame or into the frame of an unpinned victim.  The set is empty when the
\* page is out of range or every frame is pinned (PoolExhausted).
LoadChoices(fr, cap, count, p) ==
    IF p \in DOMAIN fr THEN { [stored |-> << >>, evict |-> {}] }
    ELSE IF ~Below(p, count) THEN {}
    ELSE IF Cardinality(DOMAIN fr) < cap
         THEN { [stored |-> c, evict |-> {}] : c \in StoredPages }
         ELSE { [stored |-> c, evict |-> {v}] :
                   c \in StoredPages, v \in { q \in DOMAIN fr : fr[q].pin_count = 0 } }

\* BufferPool::pin_page returning Ok
pin_page(st, p, load) ==
    IF p \in DOMAIN st.frames
    THEN [frames |-> [st.frames EXCEPT ![p].pin_count = @ + 1],
          log    |-> Append(st.log, Event("pin", p, TRUE))]
    ELSE [frames |-> [q \in (DOMAIN st.frames \ load.evict) \cup {p} |->
                         IF q = p
                         THEN [slots |-> load.stored, pin_count |-> 1, dirty |-> FALSE]
                         ELSE st.frames[q]],
          log    |-> st.log
                     \o (IF load.evict = {} THEN << >>
                         ELSE <<Event("evict", CHOOSE v \in load.evict : TRUE, TRUE)>>)
                     \o <<Event("load", p, TRUE), Event("pin", p, TRUE)>>]

\* BufferPool::pin_page returning Err
pin_page_err(st, p) ==
    [frames |-> st.frames, log |-> Append(st.log, Event("pin", p, FALSE))]

\* BufferPool::unpin_page
unpin_page(st, p, is_dirty) ==
    [frames |-> [st.frames EXCEPT ![p].pin_count = @ - 1,
                                  ![p].dirty = @ \/ is_dirty],
     log    |-> Append(st.log, Event("unpin", p, is_dirty))]

\* the write PageLayout::insert_document makes through the pinned page
page_insert(st, p, r) ==
    [frames |-> [st.frames EXCEPT ![p].slots = r.slots],
     log    |-> Append(st.log, Event("insert", p, r.ok))]

\* ---------------------------------------------------------------- ObjectId
\* struct ObjectId { bytes: [u8; 12] }
OidLen == 12
Byte == 0 .. 255

NoObjectId == [bytes |-> << >>]
NotParsed == [ok |-> FALSE, error |-> "NotParsed", oid |-> NoObjectId]

\* hex::ToHex: the digits encode_hex writes
HexLower == <<"0", "1", "2", "3", "4", "5", "6", "7",
              "8", "9", "a", "b", "c", "d", "e", "f">>
\* hex::FromHex also accepts upper-case digits
HexUpper == <<"0", "1", "2", "3", "4", "5", "6", "7",
              "8", "9", "A", "B", "C", "D", "E", "F">>

\* hex::ToHex::encode_hex for one byte: high nibble, then low nibble
encode_byte(b) == <<HexLower[(b \div 16) + 1], HexLower[(b % 16) + 1]>>

\* (variant: a byte below 16 is written without its leading zero)
encode_byte_nopad(b) ==
    IF b < 16 THEN <<HexLower[b + 1]>> ELSE encode_byte(b)

RECURSIVE encode_hex(_)
encode_hex(bytes) ==
    IF bytes = << >> THEN << >>
    ELSE encode_byte(Head(bytes)) \o encode_hex(Tail(bytes))

RECURSIVE encode_hex_nopad(_)
encode_hex_nopad(bytes) ==
    IF bytes = << >> THEN << >>
    ELSE encode_byte_nopad(Head(bytes)) \o encode_hex_nopad(Tail(bytes))

\* hex::FromHex: the value of one digit, -1 for any other character
val(c) ==
    IF \E i \in DOMAIN HexLower : HexLower[i] = c
    THEN (CHOOSE i \in DOMAIN HexLower : HexLower[i] = c) - 1
    ELSE IF \E i \in DOMAIN HexUpper : HexUpper[i] = c
         THEN (CHOOSE i \in DOMAIN HexUpper : HexUpper[i] = c) - 1
         ELSE -1

\* <[u8; 12]>::from_hex: odd length, wrong length and bad characters are errors
decode_hex(s) ==
    IF Len(s) % 2 # 0
    THEN [ok |-> FALSE, error |-> "OddLength", bytes |-> << >>]
    ELSE IF Len(s) \div 2 # OidLen
    THEN [ok |-> FALSE, error |-> "InvalidStringLength", bytes |-> << >>]
    ELSE IF \E k \in DOMAIN s : val(s[k]) < 0
    THEN [ok |-> FALSE, error |-> "InvalidHexCharacter", bytes |-> << >>]
    ELSE [ok |-> TRUE, error |-> "",
          bytes |-> [i \in 1 .. OidLen |-> val(s[2 * i - 1]) * 16 + val(s[2 * i])]]

\* ObjectId::from_bytes
from_bytes(bytes) == [bytes |-> bytes]

\* ObjectId::to_bytes
to_bytes(o) == o.bytes

\* (variant of to_hex: bytes formatted without zero padding)
to_hex_nopad(o) == encode_hex_nopad(o.bytes)

\* ObjectId::to_hex
to_hex(o) == encode_hex(o.bytes)

\* {:x}: the digits of n in base 16, most significant first, no leading zero
RECURSIVE lower_hex(_)
lower_hex(n) ==
    IF n < 16 THEN <<HexLower[n + 1]>>
    ELSE lower_hex(n \div 16) \o <<HexLower[(n % 16) + 1]>>

\* the 0 flag and the width of {:02x}: zeros in front up to the width
RECURSIVE pad_zero(_, _)
pad_zero(s, width) ==
    IF Len(s) >= width THEN s ELSE pad_zero(<<"0">> \o s, width)

\* (variant of Display: write!(f, "{:x}", byte), no padding)
RECURSIVE Display_fmt_nopad(_)
Display_fmt_nopad(o) ==
    IF o.bytes = << >> THEN << >>
    ELSE lower_hex(Head(o.bytes)) \o Display_fmt_nopad([bytes |-> Tail(o.bytes)])

\* impl fmt::Display for ObjectId: write!(f, "{:02x}", byte) for each byte
RECURSIVE Display_fmt(_)
Display_fmt(o) ==
    IF o.bytes = << >> THEN << >>
    ELSE pad_zero(lower_hex(Head(o.bytes)), 2) \o Display_fmt([bytes |-> Tail(o.bytes)])

\* A 32-bit value is held as two 16-bit words, hi * Word + lo.
Word == 65536

NoClock == [over |-> 0, hi |-> 0, lo |-> 0, read |-> FALSE]
NoTime == [days |-> 0, secs |-> 0, made |-> FALSE]

\* u32::from_be_bytes: byte 0 is the most significant
from_be_bytes(b) == [hi |-> b[1] * 256 + b[2], lo |-> b[3] * 256 + b[4]]

\* u32::to_be_bytes
to_be_bytes(w) == <<w.hi \div 256, w.hi % 256, w.lo \div 256, w.lo % 256>>

\* (variant: u32::from_le_bytes, byte 0 is the least significant)
from_le_bytes(b) == [hi |-> b[4] * 256 + b[3], lo |-> b[2] * 256 + b[1]]

\* Utc.timestamp_opt(ts as i64, 0).single(): the day since 1970-01-01 and the
\* second of that day.  A day is 86400 = 675 * 128 seconds, so with
\* q = ts div 128 the day is q div 675.  Every u32 is within chrono's range,
\* so the result is always a single instant and expect() does not panic.
timestamp_opt(w) ==
    LET q == w.hi * (Word \div 128) + (w.lo \div 128)
    IN  [days |-> q \div 675, secs |-> (q % 675) * 128 + (w.lo % 128), made |-> TRUE]

\* DateTime::timestamp() as u32
dt_timestamp(dt) ==
    LET q == dt.days * 675 + (dt.secs \div 128)
    IN  [hi |-> (q \div (Word \div 128)) % Word,
         lo |-> (q % (Word \div 128)) * 128 + (dt.secs % 128)]

\* (variant of ObjectId::timestamp reading the prefix little-endian)
timestamp_le(o) == timestamp_opt(from_le_bytes(SubSeq(o.bytes, 1, 4)))

\* ObjectId::timestamp
timestamp(o) == timestamp_opt(from_be_bytes(SubSeq(o.bytes, 1, 4)))

\* as_secs() as u32: the bits above the 32nd are dropped
as_u32(secs) == [hi |-> secs.hi, lo |-> secs.lo]

\* ObjectId::new, with the clock's seconds and the generator's eight bytes
new(now, random) == [bytes |-> to_be_bytes(as_u32(now)) \o random]

\* seconds since the epoch: 0, 86399, 2025-01-01, 2^31, 2100-01-01, 2^32 + 5
Clocks ==
    { [over |-> 0, hi |-> 0, lo |-> 0, read |-> TRUE],
      [over |-> 0, hi |-> 1, lo |-> 20863, read |-> TRUE],
      [over |-> 0, hi |-> 26484, lo |-> 34176, read |-> TRUE],
      [over |-> 0, hi |-> 32768, lo |-> 0, read |-> TRUE],
      [over |-> 0, hi |-> 62598, lo |-> 22272, read |-> TRUE],
      [over |-> 1, hi |-> 0, lo |-> 5, read |-> TRUE] }

\* ObjectId::from_hex
from_hex(s) ==
    LET arr == decode_hex(s) IN
      IF arr.ok
      THEN [ok |-> TRUE, error |-> "", oid |-> [bytes |-> arr.bytes]]
      ELSE [ok |-> FALSE, error |-> arr.error, oid |-> NoObjectId]

\* The 12-byte values offered to from_bytes: every byte value at every position,
\* the other positions holding one of a few fill bytes.
Fills == { (k * 51) % 256 : k \in 0 .. MaxFill }
OidInputs ==
    { [i \in 1 .. OidLen |-> IF i = pos THEN b ELSE fill] :
        pos \in 1 .. OidLen, b \in Byte, fill \in Fills }

\* twelve bytes whose prefix is one of the clock values
TsInputs ==
    { to_be_bytes(as_u32(c)) \o [i \in 1 .. 8 |-> fill] : c \in Clocks, fill \in Fills }

\* ---------------------------------------------------------- storage engine
None == [kind |-> "None"]
Ok(page_id, slot_id) == [kind |-> "Ok", page_id |-> page_id, slot_id |-> slot_id]
Err(msg) == [kind |-> "Err", msg |-> msg]

\* page_id as u32: the bits above the 32nd are dropped
page_id_as_u32(page_id) == page_id.low

\* line 78-81: DocumentId { page_id: page_id as u32, slot_id }
DocumentId(page_id, slot_id) == Ok(page_id_as_u32(page_id), slot_id)

\* (variant: the serialize error is not returned, the call goes on)
EarlyReturn_Never(r) == FALSE

\* StorageEngine get (design section 4.4; storage_engine.rs defines no such method):
\* read the slot the DocumentId names and decode it
get(fr, id) ==
    LET p == PageId(id.page_id) IN
      IF p \in DOMAIN fr /\ id.slot_id < Len(fr[p].slots)
      THEN [ok |-> TRUE,
            document |-> deserialize_document(fr[p].slots[id.slot_id + 1])]
      ELSE [ok |-> FALSE, document |-> NoDocument]

\* line 60-61: the ? after map_err returns on a serialize error
EarlyReturn(r) == ~r.ok

\* line 72: if document_size <= free_space
FitsCheck(size, free_space) == size <= free_space

\* line 77: unpin_page(page_id, true)
OnInsertOk(st, p) == unpin_page(st, p, TRUE)

\* (variant: the Err arm goes on without unpinning)
OnInsertErr_NoUnpin(st, p) == st

\* (variant: the Err arm unpins dirty)
OnInsertErr_Dirty(st, p) == unpin_page(st, p, TRUE)

\* line 85: unpin_page(page_id, false)
OnInsertErr(st, p) == unpin_page(st, p, FALSE)

\* (variant: the page without space is left pinned)
OnNoSpace_NoUnpin(st, p) == st

\* (variant: the page without space is unpinned dirty)
OnNoSpace_Dirty(st, p) == unpin_page(st, p, TRUE)

\* line 91: unpin_page(page_id, false)
OnNoSpace(st, p) == unpin_page(st, p, FALSE)

\* (variant: the scan goes over every page of the file that can be resident)
ScanOrder_WholeFile(resident, count) ==
    CHOOSE ids \in Orders({ p \in PageIds : Below(p, count) }) : TRUE

\* line 65: page_ids = self.buffer_pool.get_all_page_ids(), the resident ids
\* in the order the pool returned them
ScanOrder(resident, count) == resident

\* (variant: the snapshot is walked from its last id to its first)
Candidate_Reverse(ids, i) == ids[Len(ids) + 1 - i]

\* line 66: for page_id in page_ids, the i-th id of the snapshot
Candidate(ids, i) == ids[i]

\* (variant: the loop stays on the id it has just handled)
Advance_Stuck(i) == i

\* line 66: the for loop moves to the next id of the snapshot
Advance(i) == i + 1

EngineInit ==
    /\ buffer_pool_size \in PoolSizes
    /\ page_count \in PageCounts
    /\ frames = << >>
    /\ pc = "idle"
    /\ document = NoDocument
    /\ document_size = 0
    /\ page_ids = << >>
    /\ idx = 1
    /\ result = None
    /\ log = << >>
    /\ start_frames = << >>
    /\ start_pages = page_count
    /\ pin_failures = 0

Init ==
    /\ EngineInit
    /\ oid_input = [i \in 1 .. OidLen |-> 0]
    /\ oid = NoObjectId
    /\ oid_hex = << >>
    /\ oid_parsed = NotParsed
    /\ oid_display = << >>
    /\ oid_clock = NoClock
    /\ oid_ts = NoTime
    /\ oid_pc = "input"

\* BufferPool: a page of the file becomes resident (pin of a non-resident page
\* followed by its unpin), between two calls of the engine.
PoolLoad(p, load) ==
    /\ pc = "idle"
    /\ p \notin DOMAIN frames
    /\ load \in LoadChoices(frames, buffer_pool_size, page_count, p)
    /\ LET st == [frames |-> frames, log |-> << >>] IN
         frames' = unpin_page(pin_page(st, p, load), p, FALSE).frames
    /\ UNCHANGED <<buffer_pool_size, page_count, pc, document, document_size, page_ids, idx,
                   result, log, start_frames, start_pages, pin_failures>>
    /\ UNCHANGED oid_vars

\* insert_document, lines 58-65
InsertStart(d, order) ==
    /\ pc = "idle"
    /\ document' = d
    /\ log' = << >>
    /\ start_frames' = frames
    /\ start_pages' = page_count
    /\ pin_failures' = 0
    /\ idx' = 1
    /\ LET r == serialize_document(d) IN
         IF EarlyReturn(r)
         THEN /\ result' = Err("Serialize")
              /\ pc' = "returned"
              /\ document_size' = 0
              /\ page_ids' = << >>
         ELSE /\ result' = None
              /\ pc' = "scan"
              /\ document_size' = r.len
              /\ page_ids' = ScanOrder(order, page_count)
    /\ UNCHANGED <<buffer_pool_size, page_count, frames>>
    /\ UNCHANGED oid_vars

\* insert_document, lines 66-68: the next id of the snapshot is pinned; "if let
\* Ok(page)" has no else, so after a failed pin the loop goes on to the next id
PinCandidate(pin_ok) ==
    /\ pc = "scan"
    /\ idx <= Len(page_ids)
    /\ LET p  == Candidate(page_ids, idx)
           st == [frames |-> frames, log |-> log] IN
         IF pin_ok
         THEN /\ \E load \in LoadChoices(frames, buffer_pool_size, page_count, p) :
                    /\ frames' = pin_page(st, p, load).frames
                    /\ log' = pin_page(st, p, load).log
              /\ pc' = "pinned"
              /\ UNCHANGED <<idx, pin_failures, result>>
         ELSE /\ pin_failures < MaxPinFailures
              /\ frames' = pin_page_err(st, p).frames
              /\ log' = pin_page_err(st, p).log
              /\ idx' = Advance(idx)
              /\ pc' = "scan"
              /\ pin_failures' = pin_failures + 1
              /\ UNCHANGED result
    /\ UNCHANGED <<buffer_pool_size, page_count, document, document_size, page_ids,
                   start_frames, start_pages>>
    /\ UNCHANGED oid_vars

\* insert_document, lines 69-91: the body of the loop for a pinned page
TryCandidate ==
    /\ pc = "pinned"
    /\ LET p  == Candidate(page_ids, idx)
           st == [frames |-> frames, log |-> log]
           free_space == get_free_space(frames[p].slots) IN
         IF FitsCheck(document_size, free_space)
         THEN LET r   == PageLayout_insert_document(frames[p].slots, document_size)
                  st1 == page_insert(st, p, r) IN
                IF r.ok
                THEN /\ frames' = OnInsertOk(st1, p).frames
                     /\ log' = OnInsertOk(st1, p).log
                     /\ result' = DocumentId(p, r.slot_id)
                     /\ pc' = "returned"
                     /\ idx' = idx
                ELSE /\ frames' = OnInsertErr(st1, p).frames
                     /\ log' = OnInsertErr(st1, p).log
                     /\ result' = None
                     /\ pc' = "scan"
                     /\ idx' = Advance(idx)
         ELSE /\ frames' = OnNoSpace(st, p).frames
              /\ log' = OnNoSpace(st, p).log
              /\ result' = None
              /\ pc' = "scan"
              /\ idx' = Advance(idx)
    /\ UNCHANGED <<buffer_pool_size, page_count, document, document_size, page_ids,
                   start_frames, start_pages, pin_failures>>
    /\ UNCHANGED oid_vars

\* insert_document, lines 95-100: the loop is over and nothing was stored; no
\* page is allocated, the call fails with the one error of lines 97-100
ReturnNoSpace ==
    /\ pc = "scan"
    /\ idx > Len(page_ids)
    /\ result' = Err("NoSpace")
    /\ pc' = "returned"
    /\ UNCHANGED <<buffer_pool_size, page_count, frames, document, document_size, page_ids, idx, log,
                   start_frames, start_pages, pin_failures>>
    /\ UNCHANGED oid_vars

\* insert_document, line 101: the call is over; its locals and the returned value
\* are gone, the pool and the file stay as the call left them
CallReturn ==
    /\ pc = "returned"
    /\ pc' = "idle"
    /\ document' = NoDocument
    /\ document_size' = 0
    /\ page_ids' = << >>
    /\ idx' = 1
    /\ result' = None
    /\ log' = << >>
    /\ start_frames' = << >>
    /\ pin_failures' = 0
    /\ UNCHANGED <<buffer_pool_size, page_count, frames, start_pages>>
    /\ UNCHANGED oid_vars

Next ==
    \/ pc = "idle" /\ \E p \in PageIds :
                        \E load \in LoadChoices(frames, buffer_pool_size, page_count, p) :
                           PoolLoad(p, load)
    \/ pc = "idle" /\ \E d \in Documents :
                        \E order \in Orders(DOMAIN frames) : InsertStart(d, order)
    \/ \E pin_ok \in BOOLEAN : PinCandidate(pin_ok)
    \/ TryCandidate
    \/ ReturnNoSpace
    \/ CallReturn

Spec == Init /\ [][Next]_vars

\* ------------------------------------------------------------------ claims
Returned == pc = "returned"

Events(ev) == { i \in DOMAIN log : log[i].ev = ev }
\* successful pins and unpins of page p by the call so far
PinsOf(p) == Cardinality({ i \in DOMAIN log : log[i] = Event("pin", p, TRUE) })
UnpinsOf(p) ==
    Cardinality({ i \in DOMAIN log : log[i].ev = "unpin" /\ log[i].page = p })

\* free space a page had when the call began
StartFree(p) == get_free_space(start_frames[p].slots)

\* the document of the call fits an empty page
FitsEmptyPage == document.len + SlotEntrySize <= PageCapacity

\* no page resident when the call began can hold the document
NoResidentPageFits ==
    \A p \in DOMAIN start_frames : StartFree(p) < document.len + SlotEntrySize

\* C1: when no resident page can hold the encoded document, insert allocates a
\* new page of the file, stores the document in its slot 0, leaves the page dirty
\* and unpinned and returns its DocumentId; on a fresh database that is page 0.
C1_AllocatesNewPage ==
    (Returned /\ document.encodable /\ FitsEmptyPage /\ NoResidentPageFits
        /\ pin_failures = 0)
    => /\ result = Ok(page_id_as_u32(start_pages), 0)
       /\ page_count = NextCount(start_pages)
       /\ start_pages \in DOMAIN frames
       /\ frames[start_pages].dirty
       /\ frames[start_pages].pin_count = 0

\* C2: every successful pin of a page is followed by exactly one unpin of that
\* page before insert returns: at any moment a page has at most one pin more than
\* unpins, pin counts are never negative, and when the call is over (and between
\* calls) every page has the pin count it had before.
C2_PinsBalanced ==
    /\ \A p \in DOMAIN frames : frames[p].pin_count >= 0
    /\ \A p \in DOMAIN frames :
          /\ UnpinsOf(p) <= PinsOf(p)
          /\ PinsOf(p) <= UnpinsOf(p) + 1
    /\ pc \in {"idle", "returned"} =>
          \A p \in DOMAIN frames :
             /\ PinsOf(p) = UnpinsOf(p)
             /\ frames[p].pin_count = 0
    /\ Returned =>
          \A p \in DOMAIN start_frames :
             frames[p].pin_count = start_frames[p].pin_count

\* a call that unpinned one page clean after a failed page-level insert and
\* another page dirty after a successful one
C2_Witness ==
    /\ Returned
    /\ \E i, j \in DOMAIN log :
          /\ i + 1 < j
          /\ log[i].ev = "insert" /\ ~log[i].flag
          /\ log[i + 1].ev = "unpin" /\ log[i + 1].page = log[i].page
          /\ log[j].ev = "unpin" /\ log[j].flag /\ log[j].page # log[i].page

\* C3: round trip: for a document whose encoding fits a single page, insert
\* returns a DocumentId and get of that id returns the document.
C3_RoundTrip ==
    (Returned /\ document.encodable /\ FitsEmptyPage /\ pin_failures = 0)
    => /\ result.kind = "Ok"
       /\ get(frames, result) = [ok |-> TRUE, document |-> document]

\* C4: the scan calls the page-level insert on a page only if the page's free
\* space is at least the document's length plus the slot overhead.
C4_AttemptOnlyWithOverhead ==
    \A i \in Events("insert") :
        StartFree(log[i].page) >= document_size + SlotEntrySize

\* C5: a failed pin of a candidate page ends the call and is returned to the
\* caller as the call's error; the page is not skipped.
C5_PinFailureReturned ==
    \A i \in DOMAIN log :
        log[i] = Event("pin", log[i].page, FALSE)
        => /\ i = Len(log)
           /\ Returned
           /\ result = Err("Pin")

\* C6: a page is unpinned dirty exactly when the page-level insert on it just
\* succeeded, which happens for at most one page of a call; every other unpin is
\* clean, and the dirty flag of a page whose slots the call left unchanged is
\* the flag it had when the call began.
C6_DirtyOnlyWhereWritten ==
    /\ \A i \in Events("unpin") :
          log[i].flag <=> (i > 1 /\ log[i - 1] = Event("insert", log[i].page, TRUE))
    /\ Cardinality({ i \in Events("unpin") : log[i].flag }) <= 1
    /\ pc # "idle" =>
          \A p \in DOMAIN start_frames :
             frames[p].slots = start_frames[p].slots
             => frames[p].dirty = start_frames[p].dirty
    /\ Returned =>
          \A p \in DOMAIN start_frames :
             frames[p].slots # start_frames[p].slots => frames[p].dirty

\* a call that skipped a page for lack of space, leaving that page dirty from an
\* earlier call as it was, and stored the document in a page that was clean
C6_Witness ==
    /\ Returned
    /\ result.kind = "Ok"
    /\ \A i \in Events("insert") :
          log[i].flag => ~start_frames[log[i].page].dirty /\ frames[log[i].page].dirty
    /\ \E i \in DOMAIN log :
          /\ i > 1
          /\ log[i].ev = "unpin" /\ ~log[i].flag
          /\ log[i - 1] = Event("pin", log[i].page, TRUE)
    /\ \E q \in DOMAIN start_frames :
          start_frames[q].dirty /\ frames[q] = start_frames[q]

\* C7: a PageFull of the page-level insert on a candidate is consumed: the scan
\* goes on to the next candidate and then to the allocation of a new page, so a
\* call that met PageFull with a document that fits an empty page succeeds.
C7_PageFullConsumed ==
    (Returned /\ FitsEmptyPage /\ pin_failures = 0
        /\ \E i \in Events("insert") : ~log[i].flag)
    => result.kind = "Ok"

\* C8: a document whose encoding plus slot overhead exceeds an empty page fails
\* with the outcome DocumentTooLarge, whatever the pool holds.
C8_DocumentTooLarge ==
    (Returned /\ document.encodable /\ ~FitsEmptyPage)
    => result = Err("DocumentTooLarge")

\* C9: a call whose document does not encode returns the encoding error and
\* makes no buffer pool, page or file call: nothing is pinned, unpinned,
\* written or allocated.
C9_EncodingErrorFirst ==
    (Returned /\ ~document.encodable)
    => /\ result = Err("Serialize")
       /\ log = << >>
       /\ frames = start_frames
       /\ page_count = start_pages

\* a call with a document that does not encode, on a pool with resident pages
C9_Witness ==
    /\ Returned
    /\ ~document.encodable
    /\ result = Err("Serialize")
    /\ DOMAIN frames # {}


\* the pin_page calls of the call so far, failed ones included, in order
PinCalls == SelectSeq(log, LAMBDA e : e.ev = "pin")

\* the call has logged an event on page p
Touched(p) == \E i \in DOMAIN log : log[i].page = p

\* page p passes the free-space check and the page-level insert accepts the
\* document, given the content it had when the call began
Accepts(p) ==
    /\ FitsCheck(document_size, StartFree(p))
    /\ PageLayout_insert_document(start_frames[p].slots, document_size).ok

\* C13: first fit: the pages of the snapshot are pinned in the snapshot's order;
\* the document is stored in the first page of that order that was pinned,
\* passed the free-space check and was accepted by the page-level insert; no
\* page after it in the snapshot is pinned or modified by the call.
C13_FirstFit ==
    /\ Len(PinCalls) <= Len(page_ids)
    /\ \A k \in DOMAIN PinCalls : PinCalls[k].page = page_ids[k]
    /\ pc \in {"scan", "pinned", "returned"} =>
          \A k \in DOMAIN page_ids :
             k > Len(PinCalls)
             => /\ ~Touched(page_ids[k])
                /\ frames[page_ids[k]] = start_frames[page_ids[k]]
    /\ (Returned /\ result.kind = "Ok") =>
          LET n == Len(PinCalls) IN
            /\ n >= 1
            /\ PinCalls[n].flag
            /\ Accepts(page_ids[n])
            /\ frames[page_ids[n]].slots
                   = Append(start_frames[page_ids[n]].slots, document_size)
            /\ \A k \in 1 .. (n - 1) :
                  /\ ~PinCalls[k].flag \/ ~Accepts(page_ids[k])
                  /\ frames[page_ids[k]].slots = start_frames[page_ids[k]].slots

\* a call that stored the document in the second page of a snapshot after the
\* first page had no room for it
C13_Witness ==
    /\ Returned
    /\ result.kind = "Ok"
    /\ Len(page_ids) >= 2
    /\ Len(PinCalls) = 2
    /\ Events("insert") # {}
    /\ PinCalls[1].flag
    /\ ~Accepts(page_ids[1])

\* C14: the scan touches only resident pages: every id of the snapshot and
\* every page the call pins was resident when the call began, the pool reads no
\* page of the file and evicts no frame, so the same pages are resident during
\* and after the scan as before it, never more of them than the pool's capacity.
C14_ScanOnlyResident ==
    /\ Cardinality(DOMAIN frames) <= buffer_pool_size
    /\ pc \in {"scan", "pinned", "returned"} =>
          /\ DOMAIN frames = DOMAIN start_frames
          /\ \A k \in DOMAIN page_ids : page_ids[k] \in DOMAIN start_frames
          /\ \A i \in DOMAIN log :
                /\ log[i].ev \notin {"load", "evict"}
                /\ log[i].page \in DOMAIN start_frames

\* a scan over a full pool, with a page of the file that is not resident: a
\* load during this scan would have evicted a frame
C14_Witness ==
    /\ Returned
    /\ Len(PinCalls) >= 1
    /\ Cardinality(DOMAIN frames) = buffer_pool_size
    /\ \E p \in PageIds : Below(p, page_count) /\ p \notin DOMAIN frames

\* C15: on success the DocumentId names the page the call pinned and wrote to
\* and the slot the page-level insert returned: widening its 32-bit page_id
\* gives back the pool's page id, so different pages give different page_ids.
C15_DocumentIdNamesPage ==
    (Returned /\ result.kind = "Ok")
    => \E i \in Events("insert") :
          /\ log[i].flag
          /\ log[i - 1] = Event("pin", log[i].page, TRUE)
          /\ PageId(result.page_id) = log[i].page
          /\ result.slot_id = Len(start_frames[log[i].page].slots)

\* successful pins of the call not yet followed by their unpin
HeldPins ==
    { i \in DOMAIN log :
        /\ log[i].ev = "pin" /\ log[i].flag
        /\ ~\E j \in DOMAIN log : j > i /\ log[j].ev = "unpin" /\ log[j].page = log[i].page }

\* C16: the call holds at most one pin at any moment: a page is pinned only
\* when every page pinned before it has been unpinned, so at most one frame is
\* pinned, and the pin of the next candidate is never refused for lack of an
\* unpinned frame, whatever the capacity of the pool (1 included).
C16_OnePinAtATime ==
    /\ Cardinality(HeldPins) <= 1
    /\ Cardinality({ p \in DOMAIN frames : frames[p].pin_count > 0 }) <= 1
    /\ \A p \in DOMAIN frames : frames[p].pin_count <= 1
    /\ \A i \in DOMAIN log :
          log[i].ev = "pin"
          => \A j \in 1 .. (i - 1) :
                (log[j].ev = "pin" /\ log[j].flag)
                => \E k \in (j + 1) .. (i - 1) :
                      log[k].ev = "unpin" /\ log[k].page = log[j].page
    /\ (pc = "scan" /\ idx <= Len(page_ids)) =>
          /\ HeldPins = {}
          /\ LoadChoices(frames, buffer_pool_size, page_count, page_ids[idx]) # {}

\* the second page of a snapshot is pinned after the first one was pinned and
\* unpinned, in a pool with no free frame
C16_Witness ==
    /\ pc = "pinned"
    /\ idx = 2
    /\ PinCalls[1].flag
    /\ Cardinality(HeldPins) = 1
    /\ Cardinality(DOMAIN frames) = buffer_pool_size

\* C17: a call that returns an error leaves the content (bytes, slot count,
\* free space) and the dirty flag of every resident page as they were when
\* the call began, and the same pages resident.
C17_ErrorLeavesPages ==
    (Returned /\ result.kind = "Err")
    => /\ DOMAIN frames = DOMAIN start_frames
       /\ \A p \in DOMAIN start_frames :
             /\ frames[p].slots = start_frames[p].slots
             /\ get_free_space(frames[p].slots) = StartFree(p)
             /\ frames[p].dirty = start_frames[p].dirty

\* a failed call that scanned a clean page, on which the page-level insert
\* returned PageFull, and a dirty page
C17_Witness ==
    /\ Returned
    /\ result = Err("NoSpace")
    /\ \E i \in Events("insert") : ~log[i].flag /\ ~start_frames[log[i].page].dirty
    /\ \E i \in Events("unpin") : start_frames[log[i].page].dirty

\* what is left of the scan: twice the snapshot entries not yet finished, plus
\* one while the next pin has not been made
Remaining ==
    IF pc = "scan" THEN 2 * (Len(page_ids) + 1 - idx) + 1
    ELSE IF pc = "pinned" THEN 2 * (Len(page_ids) + 1 - idx)
    ELSE 0

\* a step of the call can be taken without a failure of the pool
ScanStepEnabled ==
    ENABLED (PinCandidate(TRUE) \/ TryCandidate \/ ReturnNoSpace)

ScanStepLowers ==
    pc \in {"scan", "pinned"} => (page_ids' = page_ids /\ Remaining' < Remaining)

\* C18: the scan terminates: the snapshot is taken once and does not change
\* during the call, each of its ids is pinned at most once and unpinned at
\* most once, a step of the scan is always possible until the call returns,
\* and every step lowers the count of what is left of the scan.
C18_ScanTerminates ==
    /\ [](pc \in {"scan", "pinned", "returned"} =>
            /\ \A p \in DOMAIN frames :
                  /\ Cardinality({ i \in DOMAIN log : log[i].ev = "pin" /\ log[i].page = p }) <= 1
                  /\ UnpinsOf(p) <= 1
            /\ Len(PinCalls) <= Len(page_ids)
            /\ Cardinality(Events("unpin")) <= Len(page_ids)
            /\ Remaining >= 0
            /\ pc # "returned" => ScanStepEnabled)
    /\ [][ScanStepLowers]_vars

\* a call that pinned and unpinned every page of a snapshot of two or more
\* pages and returned without storing the document
C18_Witness ==
    /\ Returned
    /\ result = Err("NoSpace")
    /\ Len(page_ids) >= 2
    /\ \A k \in DOMAIN page_ids : PinsOf(page_ids[k]) = 1 /\ UnpinsOf(page_ids[k]) = 1


\* ------------------------------------------------------- ObjectId round trip
OidInit ==
    /\ EngineInit
    /\ buffer_pool_size = 1
    /\ page_count = PageId(0)
    /\ oid_input \in OidInputs \cup TsInputs
    /\ oid = NoObjectId
    /\ oid_hex = << >>
    /\ oid_parsed = NotParsed
    /\ oid_display = << >>
    /\ oid_clock = NoClock
    /\ oid_ts = NoTime
    /\ oid_pc = "input"

\* let obj = ObjectId::from_bytes(bytes)
OidFromBytes ==
    /\ oid_pc = "input"
    /\ oid' = from_bytes(oid_input)
    /\ oid_pc' = "object"
    /\ UNCHANGED <<oid_input, oid_hex, oid_parsed, oid_display, oid_clock, oid_ts>>
    /\ UNCHANGED engine_vars

\* let hex = obj.to_hex()
OidToHex ==
    /\ oid_pc = "object"
    /\ oid_hex' = to_hex(oid)
    /\ oid_pc' = "hex"
    /\ UNCHANGED <<oid_input, oid, oid_parsed, oid_display, oid_clock, oid_ts>>
    /\ UNCHANGED engine_vars

\* ObjectId::from_hex(&hex)
OidFromHex ==
    /\ oid_pc = "hex"
    /\ oid_parsed' = from_hex(oid_hex)
    /\ oid_pc' = "parsed"
    /\ UNCHANGED <<oid_input, oid, oid_hex, oid_display, oid_clock, oid_ts>>
    /\ UNCHANGED engine_vars

\* format!("{}", obj)
OidDisplay ==
    /\ oid_pc = "parsed"
    /\ oid_display' = Display_fmt(oid)
    /\ oid_pc' = "shown"
    /\ UNCHANGED <<oid_input, oid, oid_hex, oid_parsed, oid_clock, oid_ts>>
    /\ UNCHANGED engine_vars

\* ObjectId::new(): the clock reads `now`, the generator yields the input's
\* last eight bytes
OidNew(now) ==
    /\ oid_pc = "input"
    /\ oid_clock' = now
    /\ oid' = new(now, SubSeq(oid_input, 5, 12))
    /\ oid_pc' = "made"
    /\ UNCHANGED <<oid_input, oid_hex, oid_parsed, oid_display, oid_ts>>
    /\ UNCHANGED engine_vars

\* obj.timestamp()
OidTimestamp ==
    /\ oid_pc \in {"shown", "made"}
    /\ oid_ts' = timestamp(oid)
    /\ oid_pc' = "stamped"
    /\ UNCHANGED <<oid_input, oid, oid_hex, oid_parsed, oid_display, oid_clock>>
    /\ UNCHANGED engine_vars

OidNext ==
    \/ OidFromBytes
    \/ OidToHex
    \/ OidFromHex
    \/ OidDisplay
    \/ \E now \in Clocks : OidNew(now)
    \/ OidTimestamp

OidSpec == OidInit /\ [][OidNext]_vars

\* C10: hex round trip: for every 12-byte value b,
\* from_hex(from_bytes(b).to_hex()) succeeds and its bytes are b.
C10_HexRoundTrip ==
    oid_pc = "parsed"
    => /\ oid_parsed.ok
       /\ to_bytes(oid_parsed.oid) = oid_input

\* a round trip of a value with a byte below 16 and a byte whose two digits
\* are letters
C10_Witness ==
    /\ oid_pc = "parsed"
    /\ oid_parsed.ok
    /\ \E i, j \in 1 .. OidLen : oid_input[i] < 16 /\ oid_input[j] >= 170
    /\ Len(oid_hex) = 2 * OidLen

\* C11: to_hex and Display give the same string, and that string is 24
\* lower-case hexadecimal characters, two per byte, in the order of the bytes.
C11_DisplayIsHex ==
    oid_pc = "shown"
    => /\ oid_display = oid_hex
       /\ Len(oid_hex) = 24
       /\ \A k \in DOMAIN oid_hex : \E d \in DOMAIN HexLower : oid_hex[k] = HexLower[d]
       /\ \A i \in 1 .. OidLen :
             val(oid_hex[2 * i - 1]) * 16 + val(oid_hex[2 * i]) = oid.bytes[i]

\* both strings made for a value whose first byte is below 16 and which holds a
\* byte with a letter digit
C11_Witness ==
    /\ oid_pc = "shown"
    /\ oid_display = oid_hex
    /\ oid.bytes[1] < 16
    /\ \E k \in DOMAIN oid_hex : oid_hex[k] = "f"
    /\ oid_hex[1] = "0"

\* the unsigned 32-bit big-endian value of bytes 0..4, as two words
Prefix(bytes) == [hi |-> bytes[1] * 256 + bytes[2], lo |-> bytes[3] * 256 + bytes[4]]

\* ts is in 0 ..= 4102444800 (= 62598 * 65536 + 22272)
InRange(ts) == ts.hi < 62598 \/ (ts.hi = 62598 /\ ts.lo <= 22272)

\* dt is the instant ts seconds after the epoch: 86400 * days + secs = ts,
\* compared in units of 128 seconds and the remainder
SecondsAfterEpoch(dt, ts) ==
    /\ dt.made
    /\ dt.secs \in 0 .. 86399
    /\ dt.days * 675 + (dt.secs \div 128) = ts.hi * 512 + (ts.lo \div 128)
    /\ dt.secs % 128 = ts.lo % 128

\* C12: for a timestamp prefix in 0 ..= 4102444800, timestamp() is the instant
\* that many seconds after the epoch whatever the other eight bytes are, and
\* ObjectId::new stores the clock's seconds big-endian in bytes 0..4.
C12_TimestampPrefix ==
    /\ oid_pc = "stamped" /\ InRange(Prefix(oid.bytes))
       => /\ SecondsAfterEpoch(oid_ts, Prefix(oid.bytes))
          /\ dt_timestamp(oid_ts) = Prefix(oid.bytes)
          /\ oid_ts = timestamp([bytes |-> SubSeq(oid.bytes, 1, 4) \o [i \in 1 .. 8 |-> 0]])
    /\ oid_clock.read /\ oid_clock.over = 0 /\ InRange(oid_clock)
       => /\ Prefix(oid.bytes) = [hi |-> oid_clock.hi, lo |-> oid_clock.lo]
          /\ SubSeq(oid.bytes, 5, 12) = SubSeq(oid_input, 5, 12)
          /\ oid_pc = "stamped" => SecondsAfterEpoch(oid_ts, [hi |-> oid_clock.hi, lo |-> oid_clock.lo])

\* 2025-01-01T00:00:00Z (1735689600 s, day 20089) read back from an object
\* that new() made at that second, the other bytes being non-zero
C12_Witness ==
    /\ oid_pc = "stamped"
    /\ oid_clock.read
    /\ SubSeq(oid.bytes, 1, 4) = <<103, 116, 133, 128>>
    /\ oid.bytes[12] # 0
    /\ oid_ts = [days |-> 20089, secs |-> 0, made |-> TRUE]

====
